---- MODULE Spec2Model ----
(***************************************************************************)
(* Model of apfs-inspect (src/src/apfs-inspect.c): the simulated mount of  *)
(* an APFS container.  main() is a straight-line pipeline; each stage of   *)
(* the pipeline is one action, the stage reached is held in pc.            *)
(*                                                                         *)
(* uint32_t values are kept at their width.  2^32 does not fit the         *)
(* checker's integers, so a uint32_t is the pair <<hi, lo>> of its 16-bit  *)
(* halves and the arithmetic below is arithmetic modulo 2^32.              *)
(***************************************************************************)
EXTENDS Integers, Sequences, FiniteSets, TLC

\* ---- bounds of the model ------------------------------------------------
MaxBlocks == 3      \* most blocks in a descriptor area that is read
MaxXid == 2         \* transaction identifiers are 1..MaxXid
MapCap == 2         \* most mappings a checkpoint-map block records

\* ---- uint32_t -----------------------------------------------------------
Half == 65536

U32(n) == <<0, n>>

U32Max == <<Half - 1, Half - 1>>

Add32(a, b) ==
    LET s == a[2] + b[2]
    IN  <<(a[1] + b[1] + (s \div Half)) % Half, s % Half>>

Sub32(a, b) ==
    LET d == a[2] - b[2]
        borrow == IF d < 0 THEN 1 ELSE 0
    IN  <<(a[1] - b[1] - borrow + Half) % Half, (d + Half) % Half>>

Le32(a, b) == a[1] < b[1] \/ (a[1] = b[1] /\ a[2] <= b[2])

\* nxsb->nx_xp_desc_blocks & ~(1 << 31)
MaskBit31(a) == <<a[1] % 32768, a[2]>>

\* nxsb->nx_xp_desc_blocks >> 31
Bit31(a) == a[1] \div 32768

SetBit31(a) == <<(a[1] % 32768) + 32768, a[2]>>

\* ---- on-disk layout ------------------------------------------------------
NX_MAGIC == "NXSB"
TYPE_NX_SUPERBLOCK == "nx_superblock"
TYPE_CHECKPOINT_MAP == "checkpoint_map"
TYPE_OTHER == "other"

DescBase == 1       \* nx_xp_desc_base of the container in the model
EphBase == 100      \* first address used for Ephemeral objects
OmapOid == 50       \* nx_omap_oid of every superblock in the model
TreeOid == 60       \* om_tree_oid of the object map in the model

\* One block of the container.  cksum_ok is the verdict is_cksum_valid()
\* gives on its bytes; the other fields are the fields main() reads through
\* its casts, whatever the type of the block is.
Blk(type, ck, magic, xid, oid, idx, len, cnt) ==
    [o_type |-> type, cksum_ok |-> ck, nx_magic |-> magic, o_xid |-> xid,
     o_oid |-> oid, nx_xp_desc_blocks |-> U32(0),
     nx_xp_desc_index |-> idx, nx_xp_desc_len |-> len,
     cpm_count |-> cnt,
     cpm_map |-> [j \in 1..MapCap |-> EphBase + oid * MapCap + (j - 1)]]

NoBlock == Blk(TYPE_OTHER, FALSE, "none", 0, 0, U32(0), U32(0), 0)

\* what a read outside an allocation may deliver
GarbageBlocks ==
    { Blk(TYPE_OTHER, FALSE, "junk", 0, 90, U32(0), U32(0), 0),
      Blk(TYPE_CHECKPOINT_MAP, TRUE, "junk", 0, 91, U32(0), U32(1), 1) }

is_cksum_valid(b) == b.cksum_ok
is_nx_superblock(b) == b.o_type = TYPE_NX_SUPERBLOCK
is_checkpoint_map_phys(b) == b.o_type = TYPE_CHECKPOINT_MAP

VARIABLES
    ndebug,         \* the build defines NDEBUG: assert() expands to nothing
    blk0,           \* the block at address 0x0 of the container
    disk_desc,      \* the blocks at nx_xp_desc_base of the container
    pc,             \* the stage main() has reached
    ret,            \* how the process ended ("running" until then)
    out,            \* the messages printed so far
    reads,          \* the read_blocks() calls issued, <<address, count>>
    nxsb,           \* the buffer nxsb
    xp_desc_blocks, \* uint32_t xp_desc_blocks
    xp_desc,        \* the descriptor area in memory
    i_latest_nx,    \* uint32_t i_latest_nx
    xp,             \* the checkpoint, in order
    xp_obj_len,     \* uint32_t xp_obj_len
    num_read,       \* uint32_t num_read
    xp_i,           \* the i of the Ephemeral read loop
    xp_j,           \* the j of the Ephemeral read loop
    xp_obj,         \* addresses of the blocks fetched into xp_obj
    eph_bad,        \* index of the first Ephemeral object that failed, 0 if none
    nx_omap         \* the container object map block

inputs == <<ndebug, blk0, disk_desc>>
vars == <<ndebug, blk0, disk_desc, pc, ret, out, reads, nxsb, xp_desc_blocks,
          xp_desc, i_latest_nx, xp, xp_obj_len, num_read, xp_i, xp_j, xp_obj,
          eph_bad, nx_omap>>

\* ---- the containers the model is run on ---------------------------------
\* the blocks an area is scanned for: superblocks of any xid, valid, with
\* a failing checksum or with a wrong magic, and checkpoint maps and other
\* blocks of the newest xid, <<type, checksum verdict, magic, xid>>
ScanKinds ==
    { <<TYPE_NX_SUPERBLOCK, v[1], v[2], x>> :
        v \in {<<TRUE, NX_MAGIC>>, <<FALSE, NX_MAGIC>>, <<TRUE, "bad">>},
        x \in 1..MaxXid }
    \cup { <<t, TRUE, NX_MAGIC, MaxXid>> :
             t \in {TYPE_CHECKPOINT_MAP, TYPE_OTHER} }

Block0(raw) ==
    [Blk(TYPE_NX_SUPERBLOCK, TRUE, NX_MAGIC, 1, 0, U32(0), U32(1), 0)
        EXCEPT !.nx_xp_desc_blocks = raw]

\* areas of every mix of these blocks; every block records the checkpoint
\* made of itself
ScanAreas ==
    UNION { { [i \in 1..n |->
                Blk(k[i][1], k[i][2], k[i][3], k[i][4], i,
                    U32(i - 1), U32(1), 1)]
              : k \in [1..n -> ScanKinds] }
            : n \in 0..MaxBlocks }

StartVals == {U32(n) : n \in 0..(MaxBlocks + 1)} \cup {U32Max}
LenVals == {U32(n) : n \in 0..(MaxBlocks + 1)}

\* what follows the newest superblock in an area: a valid checkpoint map
\* of c mappings, or (c = -1) an older valid superblock
ExtractKinds == (0..MapCap) \cup {-1}

\* areas of the newest valid superblock at index 0, recording any start
\* index and length, followed by checkpoint maps and older superblocks
ExtractAreas ==
    UNION { { [i \in 1..n |->
                IF i = 1
                THEN Blk(TYPE_NX_SUPERBLOCK, TRUE, NX_MAGIC, MaxXid, i, s, l, 0)
                ELSE IF c[i] = -1
                THEN Blk(TYPE_NX_SUPERBLOCK, TRUE, NX_MAGIC, 1, i,
                         U32(i - 1), U32(1), 0)
                ELSE Blk(TYPE_CHECKPOINT_MAP, TRUE, NX_MAGIC, MaxXid, i,
                         U32(0), U32(0), c[i])]
              : s \in StartVals, l \in LenVals, c \in [2..n -> ExtractKinds] }
            : n \in 1..MaxBlocks }

Block0Raws == {U32(0), U32(1), SetBit31(U32(0)), SetBit31(U32(1)), U32Max}

Block0Variants ==
    { [Blk(t, ck, m, 1, 0, U32(0), U32(1), 0) EXCEPT !.nx_xp_desc_blocks = raw]
        : t \in {TYPE_NX_SUPERBLOCK, TYPE_OTHER}, ck \in BOOLEAN,
          m \in {NX_MAGIC, "bad"}, raw \in Block0Raws }

InitProgram ==
    /\ pc = "start"
    /\ ret = "running"
    /\ out = {}
    /\ reads = <<>>
    /\ nxsb = NoBlock
    /\ xp_desc_blocks = U32(0)
    /\ xp_desc = <<>>
    /\ i_latest_nx = 0
    /\ xp = <<>>
    /\ xp_obj_len = 0
    /\ num_read = 0
    /\ xp_i = 0
    /\ xp_j = 0
    /\ xp_obj = <<>>
    /\ eph_bad = 0
    /\ nx_omap = [read |-> FALSE, cksum_ok |-> FALSE, physical |-> FALSE]

InitContainer ==
    \/ /\ disk_desc \in ScanAreas \cup ExtractAreas
       /\ blk0 = Block0(U32(Len(disk_desc)))
    \/ /\ blk0 \in Block0Variants
       /\ disk_desc = IF blk0.nx_xp_desc_blocks = U32(1)
                      THEN <<Blk(TYPE_NX_SUPERBLOCK, TRUE, NX_MAGIC, 1, 1,
                                 U32(0), U32(1), 0)>>
                      ELSE <<>>

Init ==
    /\ ndebug \in BOOLEAN
    /\ InitContainer
    /\ InitProgram

\* the process ends with exit status code after printing msg
Exit(code, msg) ==
    /\ pc' = "exit"
    /\ ret' = code
    /\ out' = out \cup {<<msg, 0>>}

\* read_blocks() of count blocks may come back short whenever count > 0
ReadResults(count) == IF count = 0 THEN {TRUE} ELSE BOOLEAN

\* ---- lines 53-82: block 0x0 ---------------------------------------------
Block0Warnings(b) ==
    (IF is_cksum_valid(b) THEN {}
     ELSE {<<"block0: checksum FAILED, proceeding", 0>>})
    \cup (IF is_nx_superblock(b) THEN {}
          ELSE {<<"block0: not a container superblock, proceeding", 0>>})
    \cup (IF b.nx_magic # NX_MAGIC
          THEN {<<"block0: incorrect magic, proceeding", 0>>} ELSE {})

ReadBlock0 ==
    /\ pc = "start"
    /\ \E mallocOk \in BOOLEAN, readOk \in BOOLEAN :
        IF ~mallocOk
        THEN /\ Exit("return -1", "ABORT: could not allocate block_buf")
             /\ UNCHANGED <<reads, nxsb>>
        ELSE /\ reads' = Append(reads, <<0, 1>>)
             /\ IF ~readOk
                THEN /\ Exit("return -1", "ABORT: failed to read block 0x0")
                     /\ UNCHANGED nxsb
                ELSE /\ nxsb' = blk0
                     /\ out' = out \cup Block0Warnings(blk0)
                     /\ pc' = "locate"
                     /\ UNCHANGED ret
    /\ UNCHANGED <<inputs, xp_desc_blocks, xp_desc, i_latest_nx, xp,
                   xp_obj_len, num_read, xp_i, xp_j, xp_obj, eph_bad, nx_omap>>

\* ---- lines 84-110: the checkpoint descriptor area -----------------------
LocateDescriptorArea ==
    /\ pc = "locate"
    /\ xp_desc_blocks' = MaskBit31(nxsb.nx_xp_desc_blocks)
    /\ \E mallocOk \in BOOLEAN :
        IF ~mallocOk
        THEN /\ Exit("return -1", "ABORT: could not allocate xp_desc")
             /\ UNCHANGED <<reads, xp_desc>>
        ELSE IF Bit31(nxsb.nx_xp_desc_blocks) # 0
        THEN /\ Exit("return 0", "END: descriptor area is not contiguous, not implemented")
             /\ UNCHANGED <<reads, xp_desc>>
        ELSE /\ reads' = Append(reads, <<DescBase, xp_desc_blocks'[2]>>)
             /\ \E readOk \in ReadResults(xp_desc_blocks'[2]) :
                 IF ~readOk
                 THEN /\ Exit("return -1", "ABORT: failed to read the descriptor area")
                      /\ UNCHANGED xp_desc
                 ELSE /\ xp_desc' = disk_desc
                      /\ pc' = "scan"
                      /\ UNCHANGED <<ret, out>>
    /\ UNCHANGED <<inputs, nxsb, i_latest_nx, xp, xp_obj_len, num_read,
                   xp_i, xp_j, xp_obj, eph_bad, nx_omap>>

\* ---- lines 112-139: the most recent well-formed superblock --------------
RECURSIVE ScanLoop(_, _, _)
\* the for loop of line 115 from index i on, i_latest_nx being latest
ScanLoop(desc, i, latest) ==
    IF i >= Len(desc) THEN latest
    ELSE LET b == desc[i + 1] IN
         IF ~is_cksum_valid(b) THEN ScanLoop(desc, i + 1, latest)
         ELSE IF is_nx_superblock(b)
              THEN IF b.nx_magic # NX_MAGIC THEN ScanLoop(desc, i + 1, latest)
                   ELSE IF b.o_xid > desc[latest + 1].o_xid
                        THEN ScanLoop(desc, i + 1, i)
                        ELSE ScanLoop(desc, i + 1, latest)
              ELSE ScanLoop(desc, i + 1, latest)

ScanWarnings(desc) ==
    { <<"WARNING: failed checksum validation, skipping", i>> :
        i \in {k \in 0..(Len(desc) - 1) : ~is_cksum_valid(desc[k + 1])} }
    \cup
    { <<"WARNING: incorrect magic number, skipping", i>> :
        i \in {k \in 0..(Len(desc) - 1) :
                 /\ is_cksum_valid(desc[k + 1])
                 /\ is_nx_superblock(desc[k + 1])
                 /\ desc[k + 1].nx_magic # NX_MAGIC} }
    \cup
    { <<"ERROR: not a superblock or checkpoint map, skipping", i>> :
        i \in {k \in 0..(Len(desc) - 1) :
                 /\ is_cksum_valid(desc[k + 1])
                 /\ ~is_nx_superblock(desc[k + 1])
                 /\ ~is_checkpoint_map_phys(desc[k + 1])} }

FindLatestSuperblock ==
    /\ pc = "scan"
    /\ i_latest_nx' = ScanLoop(xp_desc, 0, 0)
    /\ IF i_latest_nx' < Len(xp_desc)
       THEN /\ nxsb' = xp_desc[i_latest_nx' + 1]
            /\ pc' = "extract"
            /\ out' = out \cup ScanWarnings(xp_desc)
            /\ UNCHANGED ret
       ELSE \* memcpy() from xp_desc[0] of an allocation of zero bytes
            \/ /\ Exit("SIGSEGV", "crash: read outside xp_desc")
               /\ UNCHANGED nxsb
            \/ /\ nxsb' \in GarbageBlocks
               /\ pc' = "extract"
               /\ UNCHANGED <<ret, out>>
    /\ UNCHANGED <<inputs, reads, xp_desc_blocks, xp_desc, xp, xp_obj_len,
                   num_read, xp_i, xp_j, xp_obj, eph_bad, nx_omap>>

\* ---- lines 149-173: the checkpoint, copied out of the ring buffer -------
\* the memcpy() calls of lines 162-172, in block units:
\* n blocks from xp_desc + src to xp + dst
CheckpointCopies(idx, len, blocks) ==
    IF Le32(Add32(idx, len), blocks)
    THEN << [dst |-> U32(0), src |-> idx, n |-> len] >>
    ELSE LET segment_1_len == Sub32(blocks, idx)
             segment_2_len == Sub32(len, segment_1_len)
         IN  << [dst |-> U32(0), src |-> idx, n |-> segment_1_len],
                [dst |-> segment_1_len, src |-> U32(0), n |-> segment_2_len] >>

\* a memcpy() that stays inside both allocations
CopyInBounds(c, srcBlocks, dstBlocks) ==
    /\ c.src[1] = 0 /\ c.dst[1] = 0 /\ c.n[1] = 0
    /\ c.src[2] + c.n[2] <= srcBlocks
    /\ c.dst[2] + c.n[2] <= dstBlocks

\* block k (from 0) of xp is written by copy c from a block xp_desc holds
CopyDelivers(c, k, desc) ==
    /\ c.dst[1] = 0 /\ c.src[1] = 0
    /\ c.dst[2] <= k
    /\ (c.n[1] # 0 \/ k < c.dst[2] + c.n[2])
    /\ c.src[2] + (k - c.dst[2]) < Len(desc)

\* xp after the copies; g is what a block no copy delivers holds
CheckpointBlocks(copies, desc, len, g) ==
    [k1 \in 1..len |->
        LET hits == {c \in 1..Len(copies) : CopyDelivers(copies[c], k1 - 1, desc)}
        IN  IF hits = {} THEN g
            ELSE LET c == copies[CHOOSE h \in hits : \A h2 \in hits : h2 <= h]
                 IN  desc[c.src[2] + (k1 - 1 - c.dst[2]) + 1]]

LoadCheckpoint ==
    /\ pc = "extract"
    /\ \E mallocOk \in BOOLEAN :
        IF ~mallocOk
        THEN /\ Exit("return -1", "ABORT: could not allocate xp")
             /\ UNCHANGED xp
        ELSE LET copies == CheckpointCopies(nxsb.nx_xp_desc_index,
                                            nxsb.nx_xp_desc_len, xp_desc_blocks)
                 len == nxsb.nx_xp_desc_len[2]
             IN  IF \A c \in 1..Len(copies) :
                        CopyInBounds(copies[c], Len(xp_desc), len)
                 THEN /\ xp' = CheckpointBlocks(copies, xp_desc, len, NoBlock)
                      /\ pc' = "classify"
                      /\ UNCHANGED <<ret, out>>
                 ELSE \* a memcpy() outside xp_desc or xp
                      \/ /\ Exit("SIGSEGV", "crash: copy outside xp_desc or xp")
                         /\ UNCHANGED xp
                      \/ /\ \E g \in GarbageBlocks :
                              xp' = CheckpointBlocks(copies, xp_desc, len, g)
                         /\ pc' = "classify"
                         /\ out' = out \cup {<<"copy outside xp_desc or xp", 0>>}
                         /\ UNCHANGED ret
    /\ UNCHANGED <<inputs, reads, nxsb, xp_desc_blocks, xp_desc, i_latest_nx,
                   xp_obj_len, num_read, xp_i, xp_j, xp_obj, eph_bad, nx_omap>>

\* ---- lines 181-191: every block of the checkpoint is printed ------------
ClassifyCheckpoint ==
    /\ pc = "classify"
    /\ IF /\ ~ndebug
          /\ \E i \in 1..Len(xp) :
                ~is_nx_superblock(xp[i]) /\ ~is_checkpoint_map_phys(xp[i])
       THEN Exit("SIGABRT", "assert(is_checkpoint_map_phys(xp[i])) failed")
       ELSE /\ pc' = "count"
            /\ UNCHANGED <<ret, out>>
    /\ UNCHANGED <<inputs, reads, nxsb, xp_desc_blocks, xp_desc, i_latest_nx,
                   xp, xp_obj_len, num_read, xp_i, xp_j, xp_obj, eph_bad,
                   nx_omap>>

\* ---- lines 193-210: the number of checkpoint-mappings -------------------
RECURSIVE MappingCountAnyType(_, _)
\* the loop without the test of line 198
MappingCountAnyType(cp, i) ==
    IF i >= Len(cp) THEN 0
    ELSE cp[i + 1].cpm_count + MappingCountAnyType(cp, i + 1)

RECURSIVE MappingCount(_, _)
\* the for loop of line 197 from block i (from 0) on
MappingCount(cp, i) ==
    IF i >= Len(cp) THEN 0
    ELSE (IF is_checkpoint_map_phys(cp[i + 1]) THEN cp[i + 1].cpm_count ELSE 0)
         + MappingCount(cp, i + 1)

CountMappings ==
    /\ pc = "count"
    /\ xp_obj_len' = MappingCount(xp, 0)
    /\ \E mallocOk \in BOOLEAN :
        IF ~mallocOk
        THEN Exit("return -1", "ABORT: could not allocate xp_obj")
        ELSE /\ pc' = "read_eph"
             /\ UNCHANGED <<ret, out>>
    /\ num_read' = 0
    /\ xp_i' = 0
    /\ xp_j' = 0
    /\ UNCHANGED <<inputs, reads, nxsb, xp_desc_blocks, xp_desc, i_latest_nx,
                   xp, xp_obj, eph_bad, nx_omap>>

\* ---- lines 211-224: one step of the Ephemeral object read loops ---------
\* the inner loop has one more mapping of block i to read
MoreMappings(cp, i, j) ==
    /\ i < Len(cp)
    /\ is_checkpoint_map_phys(cp[i + 1])
    /\ j < cp[i + 1].cpm_count

ReadEphemeral ==
    /\ pc = "read_eph"
    /\ IF xp_i >= Len(xp)
       THEN /\ pc' = "assert_read"
            /\ UNCHANGED <<ret, out, reads, num_read, xp_i, xp_j, xp_obj>>
       ELSE IF ~MoreMappings(xp, xp_i, xp_j)
       THEN /\ xp_i' = xp_i + 1
            /\ xp_j' = 0
            /\ UNCHANGED <<pc, ret, out, reads, num_read, xp_obj>>
       ELSE LET paddr == xp[xp_i + 1].cpm_map[xp_j + 1] IN
            /\ reads' = Append(reads, <<paddr, 1>>)
            /\ \E readOk \in BOOLEAN :
                IF ~readOk
                THEN /\ Exit("return -1", "ABORT: failed to read an Ephemeral object")
                     /\ UNCHANGED <<num_read, xp_i, xp_j, xp_obj>>
                ELSE /\ xp_obj' = Append(xp_obj, paddr)
                     /\ num_read' = num_read + 1
                     /\ xp_j' = xp_j + 1
                     /\ UNCHANGED <<pc, ret, out, xp_i>>
    /\ UNCHANGED <<inputs, nxsb, xp_desc_blocks, xp_desc, i_latest_nx, xp,
                   xp_obj_len, eph_bad, nx_omap>>

\* ---- line 225: assert(num_read = xp_obj_len) ----------------------------
\* the value the asserted expression has: an assignment, not a comparison
AssertedValue(read, len) == len

AssertNumRead ==
    /\ pc = "assert_read"
    /\ IF ndebug
       THEN /\ pc' = "validate"
            /\ UNCHANGED <<ret, out, num_read>>
       ELSE /\ num_read' = xp_obj_len
            /\ IF AssertedValue(num_read, xp_obj_len) = 0
               THEN Exit("SIGABRT", "assert(num_read = xp_obj_len) failed")
               ELSE /\ pc' = "validate"
                    /\ UNCHANGED <<ret, out>>
    /\ UNCHANGED <<inputs, reads, nxsb, xp_desc_blocks, xp_desc, i_latest_nx,
                   xp, xp_obj_len, xp_i, xp_j, xp_obj, eph_bad, nx_omap>>

\* ---- lines 227-241: the Ephemeral objects are validated -----------------
\* bad is the index (from 1) of the first fetched object whose checksum
\* fails, 0 when every object validates
ValidateEphemeral ==
    /\ pc = "validate"
    /\ \E bad \in 0..xp_obj_len :
        /\ eph_bad' = bad
        /\ IF bad # 0
           THEN /\ Exit("return 0", "END: Ephemeral object malformed, not implemented")
                /\ UNCHANGED <<xp, xp_desc>>
           ELSE /\ xp' = <<>>
                /\ xp_desc' = <<>>
                /\ pc' = "load_omap"
                /\ UNCHANGED <<ret, out>>
    /\ UNCHANGED <<inputs, reads, nxsb, xp_desc_blocks, i_latest_nx,
                   xp_obj_len, num_read, xp_i, xp_j, xp_obj, nx_omap>>

\* ---- lines 251-259: the container object map is read --------------------
LoadOmap ==
    /\ pc = "load_omap"
    /\ \E mallocOk \in BOOLEAN, readOk \in BOOLEAN,
          ck \in BOOLEAN, phys \in BOOLEAN :
        IF ~mallocOk
        THEN \* read_blocks() into a null pointer
             /\ \/ Exit("SIGSEGV", "crash: read into a null nx_omap")
                \/ Exit("return -1", "ABORT: could not read nx_omap")
             /\ reads' = Append(reads, <<OmapOid, 1>>)
             /\ UNCHANGED nx_omap
        ELSE /\ reads' = Append(reads, <<OmapOid, 1>>)
             /\ IF ~readOk
                THEN /\ Exit("return -1", "ABORT: could not read nx_omap")
                     /\ UNCHANGED nx_omap
                ELSE /\ nx_omap' = [read |-> TRUE, cksum_ok |-> ck,
                                    physical |-> phys]
                     /\ pc' = "validate_omap"
                     /\ UNCHANGED <<ret, out>>
    /\ UNCHANGED <<inputs, nxsb, xp_desc_blocks, xp_desc, i_latest_nx, xp,
                   xp_obj_len, num_read, xp_i, xp_j, xp_obj, eph_bad>>

\* ---- lines 261-281: the container object map is validated ---------------
\* a warn-only check
OmapChecksumWarnOnly(ck) == "proceed"

\* what main() does with an object map whose checksum is ck
OmapChecksumVerdict(ck) == IF ck THEN "proceed" ELSE "stop"

ValidateOmap ==
    /\ pc = "validate_omap"
    /\ IF OmapChecksumVerdict(is_cksum_valid(nx_omap)) = "stop"
       THEN Exit("return 0", "END: object map malformed, not implemented")
       ELSE IF ~nx_omap.physical
       THEN Exit("return 0", "END: object map B-tree is not Physical")
       ELSE /\ pc' = "read_btree"
            /\ UNCHANGED <<ret, out>>
    /\ UNCHANGED <<inputs, reads, nxsb, xp_desc_blocks, xp_desc, i_latest_nx,
                   xp, xp_obj_len, num_read, xp_i, xp_j, xp_obj, eph_bad,
                   nx_omap>>

\* ---- lines 283-306: the root node of the object map B-tree --------------
ReadBtreeRoot ==
    /\ pc = "read_btree"
    /\ \E mallocOk \in BOOLEAN, readOk \in BOOLEAN, ck \in BOOLEAN :
        IF ~mallocOk
        THEN /\ Exit("return -1", "ABORT: could not allocate nx_omap_btree")
             /\ UNCHANGED reads
        ELSE /\ reads' = Append(reads, <<TreeOid, 1>>)
             /\ IF ~readOk
                THEN Exit("return -1", "ABORT: failed to read the B-tree root")
                ELSE /\ out' = out \cup (IF ck THEN {}
                                         ELSE {<<"B-tree root: checksum FAILED", 0>>})
                     /\ pc' = "volumes"
                     /\ UNCHANGED ret
    /\ UNCHANGED <<inputs, nxsb, xp_desc_blocks, xp_desc, i_latest_nx, xp,
                   xp_obj_len, num_read, xp_i, xp_j, xp_obj, eph_bad, nx_omap>>

\* ---- lines 308-328: the volumes are listed ------------------------------
EnumerateVolumes ==
    /\ pc = "volumes"
    /\ Exit("return 0", "END: All done")
    /\ UNCHANGED <<inputs, reads, nxsb, xp_desc_blocks, xp_desc, i_latest_nx,
                   xp, xp_obj_len, num_read, xp_i, xp_j, xp_obj, eph_bad,
                   nx_omap>>

Next ==
    \/ ReadBlock0
    \/ LocateDescriptorArea
    \/ FindLatestSuperblock
    \/ LoadCheckpoint
    \/ ClassifyCheckpoint
    \/ CountMappings
    \/ ReadEphemeral
    \/ AssertNumRead
    \/ ValidateEphemeral
    \/ LoadOmap
    \/ ValidateOmap
    \/ ReadBtreeRoot
    \/ EnumerateVolumes

Spec == Init /\ [][Next]_vars

TypeOK ==
    /\ pc \in {"start", "locate", "scan", "extract", "classify", "count",
               "read_eph", "assert_read", "validate", "load_omap",
               "validate_omap", "read_btree", "volumes", "exit"}
    /\ ret \in {"running", "return 0", "return -1", "SIGABRT", "SIGSEGV"}
    /\ (pc = "exit") = (ret # "running")
    /\ num_read <= xp_obj_len

\* ---- what the claims speak of -------------------------------------------
\* block b is a checksum-valid container superblock with the correct magic
IsCandidate(b) ==
    is_cksum_valid(b) /\ is_nx_superblock(b) /\ b.nx_magic = NX_MAGIC

\* indices (from 0) of the candidates of the area on disk
Candidates == {i \in 0..(Len(disk_desc) - 1) : IsCandidate(disk_desc[i + 1])}

\* the scan has run and main() is about to materialize the checkpoint
ScanDone == pc = "extract" /\ xp_desc = disk_desc

AbortedAt(msg) == pc = "exit" /\ <<msg, 0>> \in out

\* the superblock in nxsb is a candidate of the descriptor area
SelectedFromArea ==
    /\ i_latest_nx \in Candidates
    /\ nxsb = disk_desc[i_latest_nx + 1]

\* no copy has left its allocation so far

DefinedSoFar == <<"copy outside xp_desc or xp", 0>> \notin out

\* C1: the index the scan chooses never designates a block whose checksum
\* is invalid, nor a superblock whose magic is wrong.
C1_NeverSelectsInvalid ==
    (ScanDone /\ i_latest_nx < Len(xp_desc)) =>
        LET b == xp_desc[i_latest_nx + 1]
        IN  /\ is_cksum_valid(b)
            /\ (is_nx_superblock(b) => b.nx_magic = NX_MAGIC)

\* C2: with two or more candidates of pairwise distinct xids, the scan
\* chooses the index of the candidate of greatest xid.
C2_GreatestXidSelected ==
    (/\ ScanDone
     /\ Cardinality(Candidates) >= 2
     /\ \A i \in Candidates, j \in Candidates :
            i # j => disk_desc[i + 1].o_xid # disk_desc[j + 1].o_xid)
    => /\ i_latest_nx \in Candidates
       /\ \A j \in Candidates :
            disk_desc[j + 1].o_xid <= disk_desc[i_latest_nx + 1].o_xid

\* C3: an area without any candidate ends the scan in a failure; no
\* superblock is selected and no checkpoint is materialized.
C3_NoCandidateFails ==
    (/\ disk_desc # <<>>
     /\ pc \in {"extract", "classify", "count", "read_eph", "assert_read",
             "validate", "load_omap", "validate_omap", "read_btree",
             "volumes"})
    => Candidates # {}

\* index (from 0) of the area the claimed checkpoint takes its block k
\* (from 0) from: the direct slice when start + len <= blocks, the tail
\* then the head otherwise; -1 when the start index is no index at all
ClaimedSource(start, len, blocks, k) ==
    IF start[1] # 0 THEN -1
    ELSE IF start[2] + len <= blocks THEN start[2] + k
    ELSE IF k < blocks - start[2] THEN start[2] + k
    ELSE k - (blocks - start[2])

\* C4: the materialized checkpoint has exactly length blocks, the direct
\* slice when start_index + length <= block_count, the tail followed by
\* the head otherwise.
C4_CheckpointIsSliceOrWrap ==
    /\ SelectedFromArea => ~AbortedAt("crash: copy outside xp_desc or xp")
    /\ (pc = "classify" /\ SelectedFromArea) =>
        LET len == nxsb.nx_xp_desc_len[2]
            src(k) == ClaimedSource(nxsb.nx_xp_desc_index, len,
                                    Len(xp_desc), k)
        IN  /\ Len(xp) = len
            /\ \A k \in 0..(len - 1) :
                /\ src(k) \in 0..(Len(xp_desc) - 1)
                /\ xp[k + 1] = xp_desc[src(k) + 1]

\* C5: the bootstrap ends on a malformed Ephemeral object only when no
\* candidate older than the current superblock remains to retry with.
C5_RetriesOlderCandidate ==
    (pc = "exit" /\ eph_bad # 0 /\ SelectedFromArea /\ DefinedSoFar) =>
        ~ \E i \in Candidates : disk_desc[i + 1].o_xid < nxsb.o_xid

C7_IndirectLayoutStops ==
    (/\ Bit31(blk0.nx_xp_desc_blocks) # 0
     /\ nxsb = blk0
     /\ pc # "locate")
    => /\ pc = "exit"
       /\ ret = "return 0"
       /\ <<"END: descriptor area is not contiguous, not implemented", 0>>
            \in out
       /\ reads = << <<0, 1>> >>

RECURSIVE AllMappings(_)
\* the targets of the mappings of a checkpoint, in checkpoint block order
\* then in-map order; superblocks contribute nothing
AllMappings(cp) ==
    IF cp = <<>> THEN <<>>
    ELSE (IF is_checkpoint_map_phys(Head(cp))
          THEN SubSeq(Head(cp).cpm_map, 1, Head(cp).cpm_count)
          ELSE <<>>) \o AllMappings(Tail(cp))

\* the single-block fetches issued after the descriptor area was read
Fetches == SubSeq(reads, 3, Len(reads))

\* C8: when all Ephemeral reads succeeded, the mapping count is the sum of
\* the entry counts of the checkpoint maps and the number of fetches, the
\* k-th fetch being of the target of the k-th mapping.
C8_MappingsCountedAndFetched ==
    (pc \in {"assert_read", "validate"}) =>
        /\ xp_obj_len = Len(AllMappings(xp))
        /\ Len(Fetches) = xp_obj_len
        /\ xp_obj = AllMappings(xp)
        /\ \A k \in 1..Len(Fetches) : Fetches[k] = <<AllMappings(xp)[k], 1>>

C8_Witness ==
    /\ pc = "assert_read"
    /\ xp_obj_len >= 3
    /\ \E i \in 1..Len(xp) : is_nx_superblock(xp[i])
    /\ \E i \in 1..Len(xp), j \in 1..Len(xp) :
        /\ i < j
        /\ is_checkpoint_map_phys(xp[i]) /\ xp[i].cpm_count > 0
        /\ is_checkpoint_map_phys(xp[j]) /\ xp[j].cpm_count > 0

\* C9: the assertion after the Ephemeral object read loop never fails.
C9_AssertNeverFails ==
    (xp # <<>> /\ SelectedFromArea /\ DefinedSoFar) =>
        ~AbortedAt("assert(num_read = xp_obj_len) failed")

\* C10: checkpoint extraction copies only from inside the descriptor area
\* and only into the checkpoint.
C10_CopiesStayInBounds ==
    SelectedFromArea =>
        /\ ~AbortedAt("crash: copy outside xp_desc or xp")
        /\ DefinedSoFar
====
